---- MODULE Spec2Model ----
(***************************************************************************)
(* Model of the nextsales Streamlit dashboard (src/app.py and pages/).     *)
(*                                                                         *)
(* A Streamlit script is re-executed from its first line on every user     *)
(* interaction; st.session_state and the widget values survive from one    *)
(* execution to the next.  The model keeps                                 *)
(*   - the database tables the loaders read (fixed during a session:       *)
(*     the loaders are wrapped in st.cache_data),                          *)
(*   - st.session_state (pay_thresh, coin_top_n) and the widget values,    *)
(*   - what the last execution of the script computed and reported.        *)
(*   - the entries st.cache_data holds for train_prophet_model,            *)
(*   - which page is on display (app.py or pages/contents_sales.py).       *)
(* The script has three sections (payment, coin, cycle).  Each section is  *)
(* modelled by its own actions and has its own specification; the pure     *)
(* computations (baseline, event detection) also have a specification      *)
(* whose initial states enumerate their inputs.                            *)
(*                                                                         *)
(* Numbers: amounts and coin quantities are integers.  A threshold is kept *)
(* in hundredths (150 stands for the float 1.5), a rolling mean as the     *)
(* pair (sum, cnt), and  amount > mean * threshold  is decided in exact    *)
(* arithmetic as  amount * cnt * 100 > sum * threshold.  The one place     *)
(* where binary floating point changes an integer result, the truncation   *)
(* int(pay_thresh * 100), is modelled by IntPct below.                     *)
(***************************************************************************)
EXTENDS Integers, Sequences, FiniteSets, TLC

VARIABLES
    \* ---- payment section -------------------------------------------------
    db_ok,        \* FALSE: pd.read_sql raises (connection lost, bad table)
    db_pay,       \* rows returned by the payment query: [date, amount]
    prophet,      \* how Prophet behaves on this data: "ok", "fit_fails", "predict_fails"
    pay_df,       \* load_payment_data()[0]
    bad_rows,     \* load_payment_data()[1]
    pay_thresh,   \* st.session_state.pay_thresh, in hundredths
    th_pay,       \* value of the threshold slider widget
    slider_init,  \* value= argument the current slider widget was created with
    window,       \* width of the rolling window
    df_pay,       \* pay_df sorted by date
    rolling_avg,  \* df_pay["rolling_avg"], as [sum, cnt]
    event_flag,   \* df_pay["event_flag"]
    report,       \* messages shown by the last execution
    ran,          \* computations the last execution performed
    page,         \* "none" (not yet run), "stopped" (st.stop()), "full";
                  \* "contents_sales": pages/contents_sales.py is on display
    model_cache,  \* entries of st.cache_data for train_prophet_model
    \* ---- coin section ----------------------------------------------------
    db_coin,      \* rows of the coin query: [date, Title, Total_coins]
    coin_df,      \* load_coin_data()
    coin_date,    \* value of the date_input "coin_date": one or two days
    coin_top_n,   \* st.session_state.coin_top_n
    coin_sum,     \* per-title sums in the window, sorted: [Title, Total_coins]
    total_coins,  \* int(coin_sum.sum())
    df_top,       \* the Top-N table: [Rank, Title, Total_coins, Launch, is_new]
    top_n_sum,    \* int(df_top["Total_coins"].sum())
    ratio,        \* the share shown in the header, as [num, den]
    more_offered, \* the "show more" button was rendered
    \* ---- cycle section ---------------------------------------------------
    db_cycle,     \* payment_bomkr: [user_id, platform, payment_count, amount, date]
    cycle_form,   \* values of the form: [dr, k, m]
    joined        \* df_k.join(df_m, how="inner") with its cycle column

payVars == <<db_ok, db_pay, prophet, pay_df, bad_rows, pay_thresh, th_pay,
             slider_init, window, df_pay, rolling_avg, event_flag, report,
             ran, page, model_cache>>

coinVars == <<db_coin, coin_df, coin_date, coin_top_n, coin_sum, total_coins,
              df_top, top_n_sum, ratio, more_offered>>

cycleVars == <<db_cycle, cycle_form, joined>>

vars == <<payVars, coinVars, cycleVars>>

----------------------------------------------------------------------------
(* Bounds of the model *)

\* longest payment series enumerated for the pure computations
MaxLen == 5
\* largest number of rows of the payment query in a session
MaxRows == 2

\* largest number of coin rows besides the filler titles
MaxFree == 2
\* largest number of rows of the payment log in the cycle model
MaxCycle == 3

\* daily amounts SUM(amount) can take; refunds make a day's sum negative
Amounts == {-1, 0, 2}
\* amounts of the series longer than MaxLen (up to MaxLen + 2 rows, so that
\* a window of 7 lies wholly inside a series)
LongAmounts == {-1, 2}
\* the amounts of the specification's worked example
ExampleAmounts == {100, 400}
\* widths of the rolling window: the dashboard's 7 and the example's 3
Windows == {3, 7}
\* applied thresholds (hundredths) the pure computations are enumerated for
ProbeThresh == {100, 150, 500}
\* the stops a user drags the slider to in the session model
SliderStops == {100, 115, 150, 500}
\* daily amounts in the session model
SessionAmounts == {0, 2}

\* coin tables: a number of filler titles (even names) with one row each at
\* midnight of day 2, and up to MaxFree freely chosen rows of two further
\* titles, one named before and one after the fillers
FillerCounts == {0, 9, 10}
FreeTitles == {1, 99}
\* day 1 and day 2, midnight and noon (half days), and a text that is no date
CoinRawDates == {0, 2, 3, 4, 5}
\* net coins of a row; cancellations make it negative
CoinQty == {-1, 1}
\* the ranges a user picks in the coin date input
CoinRanges == {<<1>>, <<1, 1>>, <<1, 2>>, <<2, 2>>, <<2, 3>>}

\* the payment log of the cycle model: up to MaxCycle rows of two users,
\* payment numbers 1 and 2, on day 1, day 2 or with a text that is no date
CycleUsers == {1, 2}
CycleCounts == {1, 2}
CycleRawDates == {0, 1, 2}
\* the forms a user sends
CycleRanges == {<<1>>, <<1, 2>>, <<2, 2>>}
CycleChoices == {1, 2, 3}

----------------------------------------------------------------------------
(* Helpers *)

Max(a, b) == IF a >= b THEN a ELSE b
Min(a, b) == IF a <= b THEN a ELSE b

Range(s) == {s[i] : i \in DOMAIN s}

Msg(m, k) == [msg |-> m, n |-> k]

\* pandas' missing timestamp
NaT == -100

\* raw dates: 1, 2, ... are well-formed days, values below 1 stand for
\* texts that are no date (two different ones)
BadRaw == {-1, 0}

\* pd.to_datetime(..., errors="coerce"): a date that fails to parse is NaT
to_datetime(raw) == IF raw >= 1 THEN raw ELSE NaT

----------------------------------------------------------------------------
(* load_payment_data, src/app.py 53-81 *)

ParsePayment(rows) ==
    [i \in DOMAIN rows |->
        [date |-> to_datetime(rows[i].date), amount |-> rows[i].amount]]

IsNaT(r) == r.date = NaT
NotNaT(r) == r.date # NaT

\* df.dropna(subset=["date"])
dropna(df) == SelectSeq(df, NotNaT)

\* (clean_df, bad_rows), or two empty frames when anything raised
load_payment_data(ok, rows) ==
    IF ok
    THEN LET df == ParsePayment(rows)
         IN  [clean |-> dropna(df), bad |-> SelectSeq(df, IsNaT), err |-> FALSE]
    ELSE [clean |-> <<>>, bad |-> <<>>, err |-> TRUE]

----------------------------------------------------------------------------
(* event detection, src/app.py 179-181 *)

\* insert row r into the date-sorted sequence s
RECURSIVE InsertByDate(_, _)
InsertByDate(r, s) ==
    IF s = <<>> THEN <<r>>
    ELSE IF r.date < Head(s).date THEN <<r>> \o s
    ELSE <<Head(s)>> \o InsertByDate(r, Tail(s))

\* pay_df.sort_values("date").reset_index(drop=True)
RECURSIVE sort_values(_)
sort_values(df) ==
    IF df = <<>> THEN <<>>
    ELSE InsertByDate(df[Len(df)], sort_values(SubSeq(df, 1, Len(df) - 1)))

\* .rolling(7, ...)
RollingWindow == 7

\* a faulty variant of CenterOffset: a trailing window (center=False)
TrailingOffset(w) == 0

\* pandas' fixed window indexer with center=True: the window of row i ends
\* (w - 1) // 2 rows after it
CenterOffset(w) == (w - 1) \div 2

\* first and last row (1-based) of the window of row i among n rows,
\* clipped to the series
WinLo(i, n, w) == Max(1, i + CenterOffset(w) - w + 1)
WinHi(i, n, w) == Min(n, i + CenterOffset(w))

RECURSIVE SumRows(_, _, _)
SumRows(df, lo, hi) ==
    IF lo > hi THEN 0 ELSE df[lo].amount + SumRows(df, lo + 1, hi)

\* df["amount"].rolling(w, center=True, min_periods=1).mean(), each mean
\* kept as sum and count of the rows in the window
rolling_mean(df, w) ==
    [i \in DOMAIN df |->
        LET lo == WinLo(i, Len(df), w)
            hi == WinHi(i, Len(df), w)
        IN  [sum |-> SumRows(df, lo, hi), cnt |-> hi - lo + 1]]

\* a faulty variant of Exceeds: >= in place of >
ExceedsOrEqual(amount, avg, thr) == amount * avg.cnt * 100 >= avg.sum * thr

\* amount > rolling_avg * threshold, threshold in hundredths
Exceeds(amount, avg, thr) == amount * avg.cnt * 100 > avg.sum * thr

\* df_pay["amount"] > df_pay["rolling_avg"] * st.session_state.pay_thresh
detect_events(df, avg, thr) ==
    [i \in DOMAIN df |-> Exceeds(df[i].amount, avg[i], thr)]

----------------------------------------------------------------------------
(* load_coin_data, src/app.py 83-97.  Coin timestamps are counted in half   *)
(* days: 2 * d is midnight of day d, 2 * d + 1 its noon.                     *)

\* pd.to_datetime(..., errors="coerce") without a format
to_timestamp(raw) == IF raw >= 2 THEN raw ELSE NaT

ParseCoin(rows) ==
    [i \in DOMAIN rows |->
        [date |-> to_timestamp(rows[i].date), Title |-> rows[i].Title,
         Total_coins |-> rows[i].Total_coins]]

\* the clean frame is all the function returns: the rows it drops are
\* neither returned nor counted (a failed query returns an empty frame, as
\* an empty table does)
load_coin_data(rows) == [clean |-> dropna(ParseCoin(rows)), bad |-> <<>>]

----------------------------------------------------------------------------
(* coin ranking, src/app.py 257-326 *)

\* st.session_state.coin_top_n = 10, and += 10 on "show more"
DefaultTopN == 10
TopNStep == 10

\* timedelta(days=30)
DefaultDays == 30

\* pd.to_datetime(date): midnight of a day
Midnight(day) == 2 * day

\* .dt.strftime("%Y-%m-%d") / .date(): the day of a timestamp
DayOf(t) == t \div 2

MaxDate(df) == CHOOSE t \in {df[i].date : i \in DOMAIN df} :
                   \A i \in DOMAIN df : df[i].date <= t

\* value=[default_start, default_end]
DefaultCoinDate(df) ==
    <<DayOf(MaxDate(df) - 2 * DefaultDays), DayOf(MaxDate(df))>>

\* coin_df[(coin_df.date >= s) & (coin_df.date <= e)]
InWindow(df, s, e) ==
    LET Keep(r) == r.date >= s /\ r.date <= e
    IN  SelectSeq(df, Keep)

Titles(df) == {df[i].Title : i \in DOMAIN df}

RECURSIVE SumCoins(_, _)
SumCoins(df, title) ==
    IF df = <<>> THEN 0
    ELSE (IF Head(df).Title = title THEN Head(df).Total_coins ELSE 0)
         + SumCoins(Tail(df), title)

\* the members of a set of titles in ascending order
RECURSIVE Ascending(_)
Ascending(S) ==
    IF S = {} THEN <<>>
    ELSE LET t == CHOOSE x \in S : \A y \in S : x <= y
         IN  <<t>> \o Ascending(S \ {t})

\* df.groupby("Title")["Total_coins"].sum(): one entry per title, by title
groupby_sum(df) ==
    LET ts == Ascending(Titles(df))
    IN  [i \in DOMAIN ts |->
            [Title |-> ts[i], Total_coins |-> SumCoins(df, ts[i])]]

\* entry a is placed before entry b
Before(a, b) == a.Total_coins > b.Total_coins

RECURSIVE InsertDesc(_, _)
InsertDesc(r, s) ==
    IF s = <<>> THEN <<r>>
    ELSE IF Before(r, Head(s)) THEN <<r>> \o s
    ELSE <<Head(s)>> \o InsertDesc(r, Tail(s))

\* .sort_values(ascending=False): descending by sum; for the few entries of
\* the model numpy's sort is an insertion sort, which leaves entries of
\* equal sums in the order groupby gave them (by title)
RECURSIVE sort_desc(_)
sort_desc(sr) ==
    IF sr = <<>> THEN <<>>
    ELSE InsertDesc(sr[Len(sr)], sort_desc(SubSeq(sr, 1, Len(sr) - 1)))

\* .head(n)
head(sr, n) == SubSeq(sr, 1, Min(n, Len(sr)))

RECURSIVE SumSeries(_)
SumSeries(sr) ==
    IF sr = <<>> THEN 0 ELSE Head(sr).Total_coins + SumSeries(Tail(sr))

\* coin_df.groupby("Title")["date"].min(), for one title
first_launch(df, title) ==
    CHOOSE t \in {df[i].date : i \in {j \in DOMAIN df : df[j].Title = title}} :
        \A i \in DOMAIN df : df[i].Title = title => t <= df[i].date

\* a faulty variant of IsNew: a launch on the first day of the window missed
IsNewStrict(launch_day, s) == Midnight(launch_day) > s

\* pd.to_datetime(df_top["Launch Date"]) >= s
IsNew(launch_day, s) == Midnight(launch_day) >= s

NoCoin ==
    [coin_sum |-> <<>>, total_coins |-> 0, df_top |-> <<>>, top_n_sum |-> 0,
     ratio |-> [num |-> 0, den |-> 1], more_offered |-> FALSE,
     report |-> {}, ran |-> <<>>]

\* what the coin section computes and shows for cursor n and date range dr
CoinSection(df, n, dr) ==
    IF df = <<>>
    THEN [NoCoin EXCEPT !.report = {Msg("no_coin_data", 0)},
                        !.ran = <<"coin_section">>]
    ELSE IF Len(dr) # 2
    THEN [NoCoin EXCEPT !.report = {Msg("pick_both_dates", 0)},
                        !.ran = <<"coin_section">>]
    ELSE LET s    == Midnight(dr[1])
             e    == Midnight(dr[2])
             df_p == InWindow(df, s, e)
         IN  IF df_p = <<>>
             THEN [NoCoin EXCEPT !.report = {Msg("no_coin_in_range", 0)},
                                 !.ran = <<"coin_section">>]
             ELSE LET cs    == sort_desc(groupby_sum(df_p))
                      total == SumSeries(cs)
                      top   == head(cs, n)
                      tsum  == SumSeries(top)
                      table == [i \in DOMAIN top |->
                                  LET day == DayOf(first_launch(df, top[i].Title))
                                  IN  [Rank |-> i, Title |-> top[i].Title,
                                       Total_coins |-> top[i].Total_coins,
                                       Launch |-> day,
                                       is_new |-> IsNew(day, s)]]
                  IN  [coin_sum |-> cs, total_coins |-> total,
                       df_top |-> table, top_n_sum |-> tsum,
                       ratio |-> IF total > 0
                                 THEN [num |-> tsum, den |-> total]
                                 ELSE [num |-> 0, den |-> 1],
                       more_offered |-> Len(cs) > n,
                       report |-> {Msg("top_n_table", Len(top))},
                       ran |-> <<"coin_section", "coin_ranking">>]

----------------------------------------------------------------------------
(* cycle analysis, src/app.py 99-121 and 328-422 *)

\* WHERE date BETWEEN start AND end compares the stored text: of the two
\* texts that are no date, 0 lies inside every range (as '2024-02-30'
\* would) and -1 outside (as '' would)
Between(raw, start, end) == raw = 0 \/ (raw >= 1 /\ start <= raw /\ raw <= end)

ParseCycle(rows) ==
    [i \in DOMAIN rows |-> [rows[i] EXCEPT !.date = to_datetime(rows[i].date)]]

\* the clean frame is all the function returns
load_cycle_data(rows, start, end) ==
    LET Sel(r) == Between(r.date, start, end)
    IN  [clean |-> dropna(ParseCycle(SelectSeq(rows, Sel))), bad |-> <<>>]

\* df_filt[df_filt["payment_count"] == c]
WithCount(df, c) ==
    LET Is(r) == r.payment_count = c
    IN  SelectSeq(df, Is)

\* the rows of df_m of the user of row rk, each joined to rk
JoinRow(rk, df_m) ==
    LET Same(r) == r.user_id = rk.user_id
        ms == SelectSeq(df_m, Same)
    IN  [i \in DOMAIN ms |->
            [user_id |-> rk.user_id, d_k |-> rk.date, a_k |-> rk.amount,
             platform |-> rk.platform, d_m |-> ms[i].date,
             a_m |-> ms[i].amount, cycle |-> ms[i].date - rk.date]]

\* a faulty variant of inner_join: a left join, the m side of a user without
\* an m-th payment filled with the k side
RECURSIVE left_join(_, _)
left_join(df_k, df_m) ==
    IF df_k = <<>> THEN <<>>
    ELSE (IF JoinRow(Head(df_k), df_m) = <<>>
          THEN JoinRow(Head(df_k), <<Head(df_k)>>)
          ELSE JoinRow(Head(df_k), df_m))
         \o left_join(Tail(df_k), df_m)

\* df_k.join(df_m, how="inner") on the index user_id, and the cycle column
RECURSIVE inner_join(_, _)
inner_join(df_k, df_m) ==
    IF df_k = <<>> THEN <<>>
    ELSE JoinRow(Head(df_k), df_m) \o inner_join(Tail(df_k), df_m)

NoCycle == [joined |-> <<>>, report |-> {}, ran |-> <<>>]

\* what the cycle section computes and shows; submit: the form was sent
CycleSection(rows, submit, form) ==
    IF ~submit
    THEN [NoCycle EXCEPT !.ran = <<"cycle_section">>]
    ELSE IF Len(form.dr) # 2
    THEN [NoCycle EXCEPT !.report = {Msg("pick_both_cycle_dates", 0)},
                         !.ran = <<"cycle_section">>]
    ELSE LET df_raw  == load_cycle_data(rows, form.dr[1], form.dr[2]).clean
             InKM(r) == r.payment_count \in {form.k, form.m}
             df_filt == SelectSeq(df_raw, InKM)
             j       == inner_join(WithCount(df_filt, form.k),
                                   WithCount(df_filt, form.m))
         IN  IF df_raw = <<>>
             THEN [NoCycle EXCEPT !.report = {Msg("no_cycle_data", 0)},
                                  !.ran = <<"cycle_section", "load_cycle">>]
             ELSE IF df_filt = <<>>
             THEN [NoCycle EXCEPT !.report = {Msg("no_rows_for_counts", 0)},
                                  !.ran = <<"cycle_section", "load_cycle">>]
             ELSE IF j = <<>>
             THEN [NoCycle EXCEPT !.report = {Msg("no_user_with_both", 0)},
                                  !.ran = <<"cycle_section", "load_cycle", "join">>]
             ELSE [joined |-> j, report |-> {Msg("cycle_stats", Len(j))},
                   ran |-> <<"cycle_section", "load_cycle", "join", "cycle_stats">>]

----------------------------------------------------------------------------
(* threshold slider and apply button, src/app.py 16-17 and 163-176 *)

\* st.session_state.pay_thresh = 1.5
DefaultThresh == 150

\* st.slider(min_value=100, max_value=500, step=5)
SliderMin == 100
SliderMax == 500
SliderStep == 5

\* the positions the slider's track offers
SliderTrack == {v \in SliderMin .. SliderMax : (v - SliderMin) % SliderStep = 0}

\* the hundredths n in 100..500 for which the double (n / 100) * 100 lies
\* just below n, so that int() truncates it to n - 1 (IEEE-754 binary64,
\* round to nearest; e.g. 1.15 * 100 = 114.99999999999999)
TruncatedPct ==
    {113, 114, 115, 116, 201, 203, 205, 207, 226, 228, 230, 232, 251, 253,
     255, 402, 406, 410, 414, 427, 431, 435, 439, 452, 456, 460, 464, 477,
     481, 485, 489}

\* int(st.session_state.pay_thresh * 100)
IntPct(thr) == IF thr \in TruncatedPct THEN thr - 1 ELSE thr

\* th_pay / 100, kept in hundredths
DivHundred(v) == v

----------------------------------------------------------------------------
(* one execution of the payment section, src/app.py 145-255 *)

\* a faulty variant of IsEmpty: the check of line 155 left out
NeverEmpty(df) == FALSE

\* pay_df.empty
IsEmpty(df) == df = <<>>

Count(flags) == Cardinality({i \in DOMAIN flags : flags[i]})

\* train_prophet_model returns a model: Prophet.fit needs two rows and may
\* fail for reasons of its own
FitOk(df) == Len(df) >= 2 /\ prophet # "fit_fails"

\* the argument st.cache_data hashes: df_pay with the columns that lines
\* 180-181 added to it
CacheKey(df, avg, ev) == [df |-> df, rolling_avg |-> avg, event_flag |-> ev]

\* a faulty variant of train_prophet_model: a model returned although the
\* fit raised
train_unguarded(cache, key) ==
    [model |-> TRUE, fit_called |-> TRUE, cache |-> cache]

\* train_prophet_model under @st.cache_data: for an argument seen before
\* the stored return value (a model, or None: model = FALSE) comes back
\* and the body is not executed; otherwise the body calls fit and its
\* return value is stored
train_prophet_model(cache, key) ==
    IF \E c \in cache : c.key = key
    THEN [model |-> (CHOOSE c \in cache : c.key = key).model,
          fit_called |-> FALSE, cache |-> cache]
    ELSE [model |-> FitOk(key.df), fit_called |-> TRUE,
          cache |-> cache \cup {[key |-> key, model |-> FitOk(key.df)]}]

\* what the execution computes and shows for applied threshold thr and
\* window w
PaymentSection(thr, w) ==
    LET ld   == load_payment_data(db_ok, db_pay)
        rep0 == (IF ld.err THEN {Msg("load_error", 0)} ELSE {})
                \cup (IF ld.bad # <<>>
                      THEN {Msg("bad_rows_warning", Len(ld.bad))} ELSE {})
    IN  IF IsEmpty(ld.clean)
        THEN \* st.error(...); st.stop()
             [pay_df |-> ld.clean, bad_rows |-> ld.bad, df_pay |-> <<>>,
              rolling_avg |-> <<>>, event_flag |-> <<>>,
              report |-> rep0 \cup {Msg("no_payment_data", 0)},
              ran |-> <<"load">>, page |-> "stopped", cache |-> model_cache]
        ELSE LET df    == sort_values(ld.clean)
                 avg   == rolling_mean(df, w)
                 ev    == detect_events(df, avg, thr)
                 repEv == IF Count(ev) > 0
                          THEN {Msg("event_charts", Count(ev))}
                          ELSE {Msg("no_events", 0)}
                 tr    == train_prophet_model(model_cache, CacheKey(df, avg, ev))
                 repFc == IF tr.model
                          THEN IF prophet = "predict_fails"
                               THEN {Msg("predict_failed", 0)}
                               ELSE {Msg("forecast_chart", 0)}
                          ELSE {Msg("fit_failed", 0)}
             IN  [pay_df |-> ld.clean, bad_rows |-> ld.bad, df_pay |-> df,
                  rolling_avg |-> avg, event_flag |-> ev,
                  report |-> rep0 \cup repEv \cup repFc
                             \cup {Msg("first_payment_trend", 0)},
                  ran |-> <<"load", "baseline", "events", "recent_trend">>
                          \o (IF tr.fit_called THEN <<"fit">> ELSE <<>>)
                          \o (IF tr.model THEN <<"predict">> ELSE <<>>)
                          \o <<"first_payment_trend">>,
                  page |-> "full", cache |-> tr.cache]

\* the value of the date_input "coin_date" in an execution that reaches
\* it: a widget not yet created starts at value=[default_start, default_end]
CoinDate(df, dr) == IF dr = <<>> THEN DefaultCoinDate(df) ELSE dr

\* One execution of the whole script for applied threshold thr, cursor n,
\* coin date range dr and cycle form; submit: the cycle form was sent.
\* st.stop() ends the execution before the coin and cycle sections.
\* (p, cdf, cd, c, y are bound by \E over one-member sets so that each is
\* computed once.)
Execute(thr, n, dr, submit, form) ==
    \E p \in {PaymentSection(thr, window)},
       cdf \in {load_coin_data(db_coin).clean} :
    \E cd \in {IF p.page = "stopped" \/ cdf = <<>>
               THEN dr ELSE CoinDate(cdf, dr)} :
    \E c \in {IF p.page = "stopped" THEN NoCoin ELSE CoinSection(cdf, n, cd)},
       y \in {IF p.page = "stopped" THEN NoCycle
              ELSE CycleSection(db_cycle, submit, form)} :
        /\ pay_df' = p.pay_df
        /\ bad_rows' = p.bad_rows
        /\ df_pay' = p.df_pay
        /\ rolling_avg' = p.rolling_avg
        /\ event_flag' = p.event_flag
        /\ page' = p.page
        /\ model_cache' = p.cache
        /\ coin_df' = cdf
        /\ coin_date' = cd
        /\ coin_sum' = c.coin_sum
        /\ total_coins' = c.total_coins
        /\ df_top' = c.df_top
        /\ top_n_sum' = c.top_n_sum
        /\ ratio' = c.ratio
        /\ more_offered' = c.more_offered
        /\ joined' = y.joined
        /\ report' = p.report \cup c.report \cup y.report
        /\ ran' = p.ran \o c.ran \o y.ran

\* st.slider(value=int(pay_thresh * 100)) in an execution that reaches it:
\* a slider whose value= argument differs from the one the present widget
\* was created with is a new widget and starts at that value
Slider(thr) ==
    IF IsEmpty(load_payment_data(db_ok, db_pay).clean) \/ IntPct(thr) = slider_init
    THEN /\ UNCHANGED <<th_pay, slider_init>>
    ELSE /\ th_pay' = IntPct(thr)
         /\ slider_init' = IntPct(thr)

Tables == <<db_ok, db_pay, prophet, window, db_coin, db_cycle>>

\* the script is executed (first visit, or a rerun without a widget event)
Run ==
    /\ Execute(pay_thresh, coin_top_n, coin_date, FALSE, cycle_form)
    /\ Slider(pay_thresh)
    /\ UNCHANGED <<Tables, pay_thresh, coin_top_n, cycle_form>>

\* the user drags the slider to v; the script is executed, button not pressed
MoveSlider(v) ==
    /\ page = "full"
    /\ v # th_pay
    /\ th_pay' = v
    /\ Execute(pay_thresh, coin_top_n, coin_date, FALSE, cycle_form)
    /\ UNCHANGED <<Tables, pay_thresh, slider_init, coin_top_n, cycle_form>>

\* the user presses the apply button: the execution stores th_pay / 100 and
\* calls st.rerun(); the execution that follows shows the page
ApplyThreshold ==
    /\ page = "full"
    /\ pay_thresh' = DivHundred(th_pay)
    /\ Slider(pay_thresh')
    /\ Execute(pay_thresh', coin_top_n, coin_date, FALSE, cycle_form)
    /\ UNCHANGED <<Tables, coin_top_n, cycle_form>>

\* the user picks the date range dr (one day while the second is not picked)
ChangeCoinDate(dr) ==
    /\ page = "full"
    /\ coin_df # <<>>
    /\ dr # coin_date
    /\ Execute(pay_thresh, coin_top_n, dr, FALSE, cycle_form)
    /\ UNCHANGED <<Tables, pay_thresh, th_pay, slider_init, coin_top_n,
                   cycle_form>>

\* the user presses "show more": the execution adds 10 to the cursor and
\* calls st.rerun()
ShowMore ==
    /\ page = "full"
    /\ more_offered
    /\ coin_top_n' = coin_top_n + TopNStep
    /\ Execute(pay_thresh, coin_top_n', coin_date, FALSE, cycle_form)
    /\ UNCHANGED <<Tables, pay_thresh, th_pay, slider_init, cycle_form>>

\* the user fills the cycle form and sends it
SubmitCycle(form) ==
    /\ page = "full"
    /\ cycle_form' = form
    /\ Execute(pay_thresh, coin_top_n, coin_date, TRUE, form)
    /\ UNCHANGED <<Tables, pay_thresh, th_pay, slider_init, coin_top_n>>

----------------------------------------------------------------------------
(* Initial states *)

\* nothing has been computed or shown yet
Idle ==
    /\ pay_df = <<>> /\ bad_rows = <<>> /\ df_pay = <<>>
    /\ rolling_avg = <<>> /\ event_flag = <<>>
    /\ report = {} /\ ran = <<>> /\ page = "none"
    /\ model_cache = {}
    /\ coin_df = <<>> /\ coin_sum = <<>> /\ total_coins = 0
    /\ df_top = <<>> /\ top_n_sum = 0 /\ ratio = [num |-> 0, den |-> 1]
    /\ more_offered = FALSE /\ joined = <<>>

\* number_input(..., 1, 10, 2) and (..., 1, 10, 3); the date range of the
\* form before the user picks one
DefaultForm == [dr |-> <<1, 1>>, k |-> 2, m |-> 3]

\* session state and widgets before the first execution
FreshSession ==
    /\ pay_thresh = DefaultThresh
    /\ slider_init = 0
    /\ th_pay = 0
    /\ coin_top_n = DefaultTopN
    /\ coin_date = <<>>
    /\ cycle_form = DefaultForm

\* the rows a query returns: n of them, in date order or in reverse
Rows(n, d, a, asc) ==
    [i \in 1 .. n |->
        [date |-> d[IF asc THEN i ELSE n + 1 - i],
         amount |-> a[IF asc THEN i ELSE n + 1 - i]]]

\* a payment table of one day, for the sessions that study other sections
OneDay == <<[date |-> 1, amount |-> 2]>>

----------------------------------------------------------------------------
(* Specification of the baseline and event detection: sessions at an       *)
(* arbitrary moment (applied threshold, slider position) over every        *)
(* payment series of bounded length, about to execute the script          *)

InitDetect ==
    /\ db_ok = TRUE
    /\ prophet = "ok"
    /\ \/ \E n \in 1 .. MaxLen : \E a \in [1 .. n -> Amounts] :
            \E asc \in BOOLEAN :
                /\ db_pay = Rows(n, [i \in 1 .. n |-> i], a, asc)
                /\ window \in Windows
       \/ \E n \in MaxLen + 1 .. MaxLen + 2 : \E a \in [1 .. n -> LongAmounts] :
                /\ db_pay = Rows(n, [i \in 1 .. n |-> i], a, TRUE)
                /\ window \in Windows
       \/ \E n \in 1 .. 3 : \E a \in [1 .. n -> ExampleAmounts] :
                /\ db_pay = Rows(n, [i \in 1 .. n |-> i], a, TRUE)
                /\ window \in Windows
    /\ pay_thresh \in ProbeThresh
    /\ slider_init = IntPct(pay_thresh)
    /\ th_pay \in ProbeThresh
    /\ coin_top_n = DefaultTopN
    /\ coin_date = <<>>
    /\ cycle_form = DefaultForm
    /\ db_coin = <<>>
    /\ db_cycle = <<>>
    /\ Idle

NextDetect == Run

SpecDetect == InitDetect /\ [][NextDetect]_vars

----------------------------------------------------------------------------
(* Specification of the payment section of a session *)

\* the payment query's result: GROUP BY `date` gives rows of distinct dates
SessionTables ==
    {s \in UNION {[1 .. n -> [date : BadRaw \cup (1 .. MaxRows),
                              amount : SessionAmounts]] : n \in 0 .. MaxRows} :
        \A i, j \in DOMAIN s : i # j => s[i].date # s[j].date}

InitSession ==
    /\ \/ /\ db_ok = TRUE
          /\ db_pay \in SessionTables
          /\ prophet \in {"ok", "fit_fails", "predict_fails"}
       \/ /\ db_ok = FALSE
          /\ db_pay = <<>>
          /\ prophet = "ok"
    /\ window = RollingWindow
    /\ db_coin = <<>>
    /\ db_cycle = <<>>
    /\ FreshSession
    /\ Idle

NextSession ==
    \/ Run
    \/ \E v \in SliderStops : MoveSlider(v)
    \/ ApplyThreshold

SpecSession == InitSession /\ [][NextSession]_vars

----------------------------------------------------------------------------
(* Properties of the baseline and of event detection *)

\* the rows of a series of n rows within w \div 2 rows of row i
Around(i, n, w) == {j \in 1 .. n : i - (w \div 2) <= j /\ j <= i + (w \div 2)}

RECURSIVE SumOver(_, _)
SumOver(df, S) ==
    IF S = {} THEN 0
    ELSE LET j == CHOOSE x \in S : TRUE
         IN  df[j].amount + SumOver(df, S \ {j})

SortedByDate(df) == \A i, j \in DOMAIN df : i < j => df[i].date < df[j].date

\* C1: after an execution that reaches event detection, df_pay is pay_df in
\* ascending date order, rolling_avg is the baseline of that series, and
\* day i is flagged exactly when amount[i] > rolling_avg[i] * pay_thresh,
\* pay_thresh being the applied session threshold (not the slider's value)
C1_EventIffAboveBaseline ==
    page = "full" =>
        /\ SortedByDate(df_pay)
        /\ Range(df_pay) = Range(pay_df)
        /\ DOMAIN event_flag = DOMAIN df_pay
        /\ DOMAIN rolling_avg = DOMAIN df_pay
        /\ \A i \in DOMAIN df_pay :
              LET S == Around(i, Len(df_pay), window)
              IN  /\ rolling_avg[i].sum = SumOver(df_pay, S)
                  /\ rolling_avg[i].cnt = Cardinality(S)
                  /\ event_flag[i] <=>
                        df_pay[i].amount * Cardinality(S) * 100
                            > SumOver(df_pay, S) * pay_thresh

\* a series stored in reverse order, with a flagged day, a day that equals
\* its scaled baseline exactly (not flagged), and a slider that differs
\* from the applied threshold
C1_Witness ==
    /\ page = "full"
    /\ pay_df # df_pay
    /\ th_pay # pay_thresh
    /\ \E i \in DOMAIN df_pay : event_flag[i]
    /\ \E i \in DOMAIN df_pay :
          /\ df_pay[i].amount > 0
          /\ df_pay[i].amount * rolling_avg[i].cnt * 100
                = rolling_avg[i].sum * pay_thresh
          /\ ~event_flag[i]

\* C2: for thresholds >= 1.0 a flagged day has amount > 0 and a baseline
\* > 0; a day whose baseline is zero is never flagged
C2_EventOnlyIfPositive ==
    (page = "full" /\ pay_thresh >= 100) =>
        \A i \in DOMAIN df_pay :
            event_flag[i] => (df_pay[i].amount > 0 /\ rolling_avg[i].sum > 0)

MinOver(df, S) == CHOOSE v \in {df[j].amount : j \in S} :
                      \A j \in S : v <= df[j].amount
MaxOver(df, S) == CHOOSE v \in {df[j].amount : j \in S} :
                      \A j \in S : v >= df[j].amount

\* C3: the baseline has one entry per date of the series; entry i is the
\* mean of the rows i - W \div 2 .. i + W \div 2 that exist (at least one),
\* and so lies between the least and the greatest amount of those rows
C3_BaselineIsCentredMean ==
    page = "full" =>
        /\ Len(rolling_avg) = Len(pay_df)
        /\ Len(df_pay) = Len(pay_df)
        /\ \A i \in DOMAIN rolling_avg :
              LET S == Around(i, Len(df_pay), window)
                  c == rolling_avg[i].cnt
              IN  /\ c = Cardinality(S)
                  /\ c >= 1
                  /\ rolling_avg[i].sum = SumOver(df_pay, S)
                  /\ MinOver(df_pay, S) * c <= rolling_avg[i].sum
                  /\ rolling_avg[i].sum <= MaxOver(df_pay, S) * c

\* a window of 7 with a full window (row 4 of 7), windows cut at either end,
\* and a mean strictly between the least and the greatest amount
C3_Witness ==
    /\ page = "full"
    /\ window = 7
    /\ Len(df_pay) = 7
    /\ rolling_avg[4].cnt = 7
    /\ rolling_avg[1].cnt = 4
    /\ rolling_avg[7].cnt = 4
    /\ rolling_avg[1].sum # rolling_avg[7].sum
    /\ MinOver(df_pay, 1 .. 7) * 7 < rolling_avg[4].sum
    /\ rolling_avg[4].sum < MaxOver(df_pay, 1 .. 7) * 7

\* C4: the applied threshold starts at 1.5, stays within [1.0, 5.0], and
\* changes only to slider_value / 100 for a slider_value on the slider's
\* track {100, 105, ..., 500}
C4_ThresholdFromTrack ==
    /\ pay_thresh = DefaultThresh
    /\ [](pay_thresh \in SliderMin .. SliderMax)
    /\ [][pay_thresh' # pay_thresh =>
            (pay_thresh' = th_pay /\ th_pay \in SliderTrack)]_vars

Example == <<100, 100, 400>>

IsExample ==
    /\ page = "full"
    /\ pay_thresh = 150
    /\ [i \in DOMAIN df_pay |-> df_pay[i].amount] = Example

\* C5 as stated: with window 3 the baseline of the third day of the example
\* is mean(100, 100, 400) = 200 and only the third day is flagged
C5_ExampleAsStated ==
    (IsExample /\ window = 3) =>
        /\ rolling_avg[3].sum = 200 * rolling_avg[3].cnt
        /\ event_flag = <<FALSE, FALSE, TRUE>>

\* C5, amended: with window 3 the third day's window is cut at the end of
\* the series and its baseline is mean(100, 400) = 250; mean(100, 100, 400)
\* = 200 is its baseline with the dashboard's window of 7; either way only
\* the third day is flagged
C5_Example ==
    IsExample =>
        /\ window = 3 => rolling_avg[3] = [sum |-> 500, cnt |-> 2]
        /\ window = 7 => rolling_avg[3] = [sum |-> 600, cnt |-> 3]
        /\ event_flag = <<FALSE, FALSE, TRUE>>

C5_Witness == IsExample /\ window = 3 /\ rolling_avg[3].cnt = 2

----------------------------------------------------------------------------
(* Properties of an execution without payment data *)

Shown(m) == \E r \in report : r.msg = m

\* C9: when no payment row is left after cleaning (no rows, no parsable
\* date, or a failed load) the execution reports the missing data and
\* stops: no baseline, event detection, fit or predict, and no event or
\* forecast result
C9_EmptySeriesStops ==
    (page # "none" /\ pay_df = <<>>) =>
        /\ page = "stopped"
        /\ Shown("no_payment_data")
        /\ Range(ran) \cap {"baseline", "events", "fit", "predict"} = {}
        /\ ~Shown("event_charts") /\ ~Shown("no_events")
        /\ ~Shown("forecast_chart") /\ ~Shown("fit_failed")
        /\ ~Shown("predict_failed")

\* every date of a non-empty table failed to parse
C9_Witness ==
    /\ page = "stopped"
    /\ Len(db_pay) = 2
    /\ Len(bad_rows) = 2
    /\ Shown("bad_rows_warning")

----------------------------------------------------------------------------
(* Specification of the coin section of a session *)

\* the members of a finite set in some fixed order
RECURSIVE SeqOf(_)
SeqOf(S) ==
    IF S = {} THEN <<>>
    ELSE LET x == CHOOSE y \in S : TRUE
         IN  <<x>> \o SeqOf(S \ {x})

\* the subsets of S of at most k members
RECURSIVE UpTo(_, _)
UpTo(S, k) ==
    IF k = 0 THEN {{}}
    ELSE LET P == UpTo(S, k - 1)
         IN  P \cup {X \cup {a} : X \in P, a \in S}

Filler(f) == [date |-> 4, Title |-> 2 * f, Total_coins |-> 1 + (f % 2)]

FreeRows == [date : CoinRawDates, Title : FreeTitles, Total_coins : CoinQty]

CoinTables ==
    {[f \in 1 .. c |-> Filler(f)] \o SeqOf(R) :
        c \in FillerCounts,
        R \in UpTo(FreeRows, MaxFree)}

InitCoin ==
    /\ db_ok = TRUE
    /\ db_pay = OneDay
    /\ prophet = "ok"
    /\ window = RollingWindow
    /\ db_coin \in CoinTables
    /\ db_cycle = <<>>
    /\ FreshSession
    /\ Idle

NextCoin ==
    \/ Run
    \/ \E dr \in CoinRanges : ChangeCoinDate(dr)
    \/ ShowMore

SpecCoin == InitCoin /\ [][NextCoin]_vars

----------------------------------------------------------------------------
(* Specification of the cycle section of a session *)

\* a row of the payment log; the amount tells the rows apart
CycleRow(u, c, d) ==
    [user_id |-> u, platform |-> IF u = 1 THEN "M" ELSE "W",
     payment_count |-> c, amount |-> 100 * u + 10 * c + d, date |-> d]

CycleTables ==
    {SeqOf(R) :
        R \in UpTo({CycleRow(u, c, d) :
                       u \in CycleUsers, c \in CycleCounts, d \in CycleRawDates},
                   MaxCycle)}

InitCycle ==
    /\ db_ok = TRUE
    /\ db_pay = OneDay
    /\ prophet = "ok"
    /\ window = RollingWindow
    /\ db_coin = <<>>
    /\ db_cycle \in CycleTables
    /\ FreshSession
    /\ Idle

NextCycle ==
    \/ Run
    \/ \E dr \in CycleRanges, k \in CycleChoices, m \in CycleChoices :
          SubmitCycle([dr |-> dr, k |-> k, m |-> m])

SpecCycle == InitCycle /\ [][NextCycle]_vars

----------------------------------------------------------------------------
(* Properties of the coin section *)

\* the sum of the coins of a title over the parsed rows within [s, e]
RECURSIVE CoinsOf(_, _, _, _)
CoinsOf(rows, title, s, e) ==
    IF rows = <<>> THEN 0
    ELSE (IF /\ Head(rows).Title = title
             /\ Head(rows).date >= 2
             /\ s <= Head(rows).date /\ Head(rows).date <= e
          THEN Head(rows).Total_coins ELSE 0)
         + CoinsOf(Tail(rows), title, s, e)

TitlesWithin(rows, s, e) ==
    {rows[i].Title : i \in {j \in DOMAIN rows :
        rows[j].date >= 2 /\ s <= rows[j].date /\ rows[j].date <= e}}

RECURSIVE Total(_)
Total(sr) == IF sr = <<>> THEN 0 ELSE Head(sr).Total_coins + Total(Tail(sr))

\* the part of C6 about the order: coin_sum holds the sum of every title of
\* the window, in descending order of the sums, titles of equal sums by
\* name, and the table is its first coin_top_n entries
C6_RankingOrder ==
    Shown("top_n_table") =>
        LET s == Midnight(coin_date[1])
            e == Midnight(coin_date[2])
        IN  /\ {coin_sum[i].Title : i \in DOMAIN coin_sum}
                  = TitlesWithin(db_coin, s, e)
            /\ Len(coin_sum) = Cardinality(TitlesWithin(db_coin, s, e))
            /\ \A i \in DOMAIN coin_sum :
                  coin_sum[i].Total_coins
                      = CoinsOf(db_coin, coin_sum[i].Title, s, e)
            /\ \A i, j \in DOMAIN coin_sum : i < j =>
                  \/ coin_sum[i].Total_coins > coin_sum[j].Total_coins
                  \/ /\ coin_sum[i].Total_coins = coin_sum[j].Total_coins
                     /\ coin_sum[i].Title < coin_sum[j].Title
            /\ Len(df_top) = Min(coin_top_n, Len(coin_sum))
            /\ \A i \in DOMAIN df_top :
                  /\ df_top[i].Title = coin_sum[i].Title
                  /\ df_top[i].Total_coins = coin_sum[i].Total_coins
            /\ top_n_sum = Total(df_top)
            /\ total_coins = Total(coin_sum)

\* C6: the Top-K list is the first K titles of the per-title sums of the
\* window in descending order, equal sums in a fixed order, and the sum of
\* the Top-K quantities is at most the sum over all titles, the ratio shown
\* at most 100%
C6_TopKRanking ==
    /\ C6_RankingOrder
    /\ Shown("top_n_table") =>
          /\ top_n_sum <= total_coins
          /\ ratio.num <= ratio.den

\* the first timestamp of a title among all parsed rows of the table
LaunchOf(rows, title) ==
    CHOOSE t \in {rows[i].date : i \in DOMAIN rows} :
        /\ t >= 2
        /\ \E i \in DOMAIN rows : rows[i].Title = title /\ rows[i].date = t
        /\ \A i \in DOMAIN rows :
              (rows[i].Title = title /\ rows[i].date >= 2) => t <= rows[i].date

\* C7: the launch date of every title of the Top-K table is the day of its
\* first row in the whole table, and is_new holds exactly when that first
\* row lies within the window [s, e]
C7_LaunchAndIsNew ==
    Shown("top_n_table") =>
        \A i \in DOMAIN df_top :
            LET launch == LaunchOf(db_coin, df_top[i].Title)
            IN  /\ df_top[i].Launch = DayOf(launch)
                /\ df_top[i].is_new <=>
                      (/\ Midnight(coin_date[1]) <= launch
                       /\ launch <= Midnight(coin_date[2]))

\* a table with a title launched before the window, at noon (not new), and
\* a title launched on the first day of the window (new)
C7_Witness ==
    /\ Shown("top_n_table")
    /\ \E i, j \in DOMAIN df_top :
          /\ ~df_top[i].is_new
          /\ df_top[i].Launch < coin_date[1]
          /\ LaunchOf(db_coin, df_top[i].Title) % 2 = 1
          /\ df_top[j].is_new
          /\ df_top[j].Launch = coin_date[1]

----------------------------------------------------------------------------
(* Properties of the cycle section *)

\* the rows of the payment log with a date within the range of the form
LogRows ==
    {i \in DOMAIN db_cycle :
        /\ db_cycle[i].date >= 1
        /\ cycle_form.dr[1] <= db_cycle[i].date
        /\ db_cycle[i].date <= cycle_form.dr[2]}

Has(u, c) ==
    \E i \in LogRows :
        db_cycle[i].user_id = u /\ db_cycle[i].payment_count = c

Cycled == "load_cycle" \in Range(ran)

\* C8: after the form is sent, a user is in the joined result exactly when
\* the range holds a payment number k and a payment number m of that user;
\* every joined row pairs a k-th payment of a user with an m-th payment of
\* the same user, and its cycle is d_m - d_k
C8_InnerJoin ==
    Cycled =>
        /\ \A j \in DOMAIN joined :
              \E a, b \in LogRows :
                  /\ db_cycle[a].user_id = joined[j].user_id
                  /\ db_cycle[b].user_id = joined[j].user_id
                  /\ db_cycle[a].payment_count = cycle_form.k
                  /\ db_cycle[b].payment_count = cycle_form.m
                  /\ joined[j].d_k = db_cycle[a].date
                  /\ joined[j].a_k = db_cycle[a].amount
                  /\ joined[j].d_m = db_cycle[b].date
                  /\ joined[j].a_m = db_cycle[b].amount
                  /\ joined[j].cycle = db_cycle[b].date - db_cycle[a].date
        /\ \A u \in CycleUsers :
              (Has(u, cycle_form.k) /\ Has(u, cycle_form.m))
                  <=> \E j \in DOMAIN joined : joined[j].user_id = u

\* one user with both payments is joined, the other has only the k-th
C8_Witness ==
    /\ Cycled
    /\ cycle_form.k # cycle_form.m
    /\ Len(joined) = 1
    /\ joined[1].cycle = 1
    /\ \E u \in CycleUsers : Has(u, cycle_form.k) /\ ~Has(u, cycle_form.m)

----------------------------------------------------------------------------
(* Properties of the loaders *)

\* the payment loader: every row of the query is either in pay_df (its date
\* parsed) or in bad_rows (it did not), and the execution reports the
\* number of bad rows
PaymentRowsAccounted ==
    (page # "none" /\ db_ok) =>
        /\ Len(pay_df) + Len(bad_rows) = Len(db_pay)
        /\ \A i \in DOMAIN db_pay :
              IF db_pay[i].date >= 1
              THEN \E j \in DOMAIN pay_df : pay_df[j] = db_pay[i]
              ELSE \E j \in DOMAIN bad_rows :
                      bad_rows[j].amount = db_pay[i].amount
        /\ bad_rows # <<>> =>
              [msg |-> "bad_rows_warning", n |-> Len(bad_rows)] \in report

\* C10: for each loader every raw row is either in the clean frame or among
\* the rejected rows returned to the caller, and the number of rejected
\* rows is reported when there are any
C10_RejectedRowsReported ==
    /\ PaymentRowsAccounted
    /\ page = "full" =>
          LET r == load_coin_data(db_coin)
          IN  /\ Len(r.clean) + Len(r.bad) = Len(db_coin)
              /\ Len(r.clean) < Len(db_coin) => Shown("coin_bad_rows_warning")
    /\ Cycled =>
          LET r == load_cycle_data(db_cycle, cycle_form.dr[1], cycle_form.dr[2])
              Sel(x) == Between(x.date, cycle_form.dr[1], cycle_form.dr[2])
              n == Len(SelectSeq(db_cycle, Sel))
          IN  /\ Len(r.clean) + Len(r.bad) = n
              /\ Len(r.clean) < n => Shown("cycle_bad_rows_warning")

----------------------------------------------------------------------------
(* Specification of the forecast panel within a whole session: payment     *)
(* series on which Prophet fits, fails to fit or fails to predict, with a  *)
(* coin table and a payment log behind the sections that follow the panel  *)

ForecastCoin ==
    <<[date |-> 4, Title |-> 1, Total_coins |-> 2],
      [date |-> 5, Title |-> 2, Total_coins |-> 1]>>

ForecastCycle == <<CycleRow(1, 1, 1), CycleRow(1, 2, 2), CycleRow(2, 1, 1)>>

ForecastRanges == {<<4>>, <<4, 5>>}

ForecastForms == {[dr |-> <<1, 2>>, k |-> 1, m |-> 2], DefaultForm}

InitForecast ==
    /\ db_ok = TRUE
    /\ db_pay \in SessionTables
    /\ prophet \in {"ok", "fit_fails", "predict_fails"}
    /\ window = RollingWindow
    /\ db_coin = ForecastCoin
    /\ db_cycle = ForecastCycle
    /\ FreshSession
    /\ Idle

NextForecast ==
    \/ Run
    \/ \E v \in SliderStops : MoveSlider(v)
    \/ ApplyThreshold
    \/ \E dr \in ForecastRanges : ChangeCoinDate(dr)
    \/ \E form \in ForecastForms : SubmitCycle(form)

SpecForecast == InitForecast /\ [][NextForecast]_vars

----------------------------------------------------------------------------
(* Properties of the forecast panel *)

\* position of step x in the last execution, 0 when it was not performed
StepAt(x) ==
    IF x \in Range(ran) THEN CHOOSE i \in DOMAIN ran : ran[i] = x ELSE 0

Did(x) == x \in Range(ran)

\* the argument train_prophet_model received in the last execution
LastKey == CacheKey(df_pay, rolling_avg, event_flag)

\* the fit of the data of the last execution completed successfully, in
\* that execution or in the earlier one whose return value the cache holds
FittedModel ==
    /\ FitOk(df_pay)
    /\ [key |-> LastKey, model |-> TRUE] \in model_cache
    /\ Did("fit") => StepAt("fit") < StepAt("predict")

\* the forecast panel reported a failure
ForecastFailed == Shown("fit_failed") \/ Shown("predict_failed")

\* the sections outside the forecast panel were computed as they are
\* without a failure
RestComputed ==
    /\ page = "full"
    /\ Shown("first_payment_trend")
    /\ StepAt("first_payment_trend") > StepAt("predict")
    /\ Did("coin_section") /\ Did("cycle_section")
    /\ \E c \in {CoinSection(coin_df, coin_top_n, coin_date)} :
          /\ coin_sum = c.coin_sum /\ df_top = c.df_top
          /\ total_coins = c.total_coins /\ top_n_sum = c.top_n_sum
          /\ c.report \subseteq report
    /\ \E sub \in BOOLEAN :
          \E y \in {CycleSection(db_cycle, sub, cycle_form)} :
             /\ joined = y.joined
             /\ y.report \subseteq report
             /\ \A x \in Range(y.ran) : Did(x)

\* the failure the panel reports is the one that happened, and nothing is
\* drawn in the panel
FailureInPanel ==
    /\ Shown("fit_failed") => ~FitOk(df_pay) /\ ~Did("predict")
    /\ Shown("predict_failed") =>
          FitOk(df_pay) /\ prophet = "predict_fails" /\ Did("predict")
    /\ ~Shown("forecast_chart")
    /\ ~(Shown("fit_failed") /\ Shown("predict_failed"))
    /\ ~Shown("load_error") /\ ~Shown("no_payment_data")

\* C11 as stated: predict is invoked only after the fit of the same
\* execution has completed successfully; when the fit fails or predict
\* raises, only the forecast panel reports a failure and the first-payment
\* trend, the coin ranking and the cycle analysis are still computed.
C11_PredictAfterFitOfRun ==
    /\ Did("predict") =>
          /\ Did("fit")
          /\ StepAt("fit") < StepAt("predict")
          /\ FitOk(df_pay)
    /\ ForecastFailed => FailureInPanel /\ RestComputed

\* C11: predict is invoked only on a model whose fit completed
\* successfully, in the same execution or, for unchanged data, in the
\* earlier execution whose return value st.cache_data hands back; a panel
\* that has no model or whose predict raises reports its failure alone and
\* the first-payment trend, the coin ranking and the cycle analysis are
\* still computed.
C11_PredictOnFittedModel ==
    /\ Did("predict") => FittedModel
    /\ (page = "full" /\ ~Did("predict")) => Shown("fit_failed")
    /\ ForecastFailed => FailureInPanel /\ RestComputed

\* a failed fit whose return value came from the cache, and a raising
\* predict on a cached model, with a coin ranking and a cycle result
\* computed after the panel
C11_Witness ==
    /\ ForecastFailed
    /\ ~Did("fit")
    /\ df_top # <<>>
    /\ joined # <<>>

----------------------------------------------------------------------------
(* pages/contents_sales.py: the coin page of the multipage app.  It shares *)
(* st.session_state.coin_top_n with app.py.                                *)

\* load_coin_data of the page: dates coerced, no row dropped
load_coin_contents(rows) == ParseCoin(rows)

\* what the page computes and shows for cursor n and date range dr.  Rows
\* with a NaT date fail both comparisons of the window and are skipped by
\* groupby(...).min(), so the launch is looked up among the dated rows.
ContentsSection(df, n, dr) ==
    IF Len(dr) # 2
    THEN [NoCoin EXCEPT !.ran = <<"contents_page">>]
    ELSE LET s     == Midnight(dr[1])
             e     == Midnight(dr[2])
             df_p  == InWindow(df, s, e)
             cs    == sort_desc(groupby_sum(df_p))
             total == SumSeries(cs)
             top   == head(cs, n)
             tsum  == SumSeries(top)
             table == [i \in DOMAIN top |->
                         LET day == DayOf(first_launch(dropna(df), top[i].Title))
                         IN  [Rank |-> i, Title |-> top[i].Title,
                              Total_coins |-> top[i].Total_coins,
                              Launch |-> day, is_new |-> IsNew(day, s)]]
         IN  [coin_sum |-> cs, total_coins |-> total, df_top |-> table,
              top_n_sum |-> tsum,
              ratio |-> IF total # 0 THEN [num |-> tsum, den |-> total]
                        ELSE [num |-> 0, den |-> 1],
              more_offered |-> Len(cs) > n,
              report |-> {Msg("top_n_table", Len(top))},
              ran |-> <<"contents_page", "coin_ranking">>]

\* one execution of the page's script; what app.py showed is replaced
ExecuteContents(n, dr) ==
    \E cdf \in {load_coin_contents(db_coin)} :
    \E c \in {ContentsSection(cdf, n, dr)} :
        /\ page' = "contents_sales"
        /\ coin_df' = cdf
        /\ coin_date' = dr
        /\ coin_sum' = c.coin_sum
        /\ total_coins' = c.total_coins
        /\ df_top' = c.df_top
        /\ top_n_sum' = c.top_n_sum
        /\ ratio' = c.ratio
        /\ more_offered' = c.more_offered
        /\ report' = c.report
        /\ ran' = c.ran
        /\ UNCHANGED <<pay_df, bad_rows, df_pay, rolling_avg, event_flag,
                       model_cache, joined>>

\* the user opens the page or picks the date range dr on it
ViewContents(dr) ==
    /\ page = "contents_sales" => dr # coin_date
    /\ ExecuteContents(coin_top_n, dr)
    /\ UNCHANGED <<Tables, pay_thresh, th_pay, slider_init, coin_top_n,
                   cycle_form>>

\* the user presses the "show more" button the page shows.  The execution
\* draws the table for the cursor as it is (line 70), reaches st.button
\* only under the condition of line 106, adds 10 there and ends: there is
\* no st.rerun()
ShowMoreContents ==
    /\ page = "contents_sales"
    /\ more_offered
    /\ ExecuteContents(coin_top_n, coin_date)
    /\ coin_top_n' = IF more_offered' THEN coin_top_n + TopNStep
                     ELSE coin_top_n
    /\ UNCHANGED <<Tables, pay_thresh, th_pay, slider_init, cycle_form>>

----------------------------------------------------------------------------
(* Specification of the Top-N cursor over a session that visits both coin  *)
(* pages                                                                   *)

TitleCounts == {9, 10, 11, 12, 20, 21, 22, 31}

\* a coin table of c titles: the first ten sold on day 2, the others on
\* day 3
TopNRow(f) ==
    [date |-> IF f > 10 THEN 6 ELSE 4, Title |-> f, Total_coins |-> 1 + (f % 2)]

TopNRanges == {<<2>>, <<2, 2>>, <<3, 3>>, <<2, 3>>}

InitTopN ==
    /\ db_ok = TRUE
    /\ db_pay = OneDay
    /\ prophet = "ok"
    /\ window = RollingWindow
    /\ \E c \in TitleCounts : db_coin = [f \in 1 .. c |-> TopNRow(f)]
    /\ db_cycle = <<>>
    /\ FreshSession
    /\ Idle

NextApp ==
    \/ Run
    \/ \E dr \in TopNRanges : ChangeCoinDate(dr)
    \/ ShowMore

NextTopN ==
    \/ NextApp
    \/ \E dr \in TopNRanges : ViewContents(dr)
    \/ ShowMoreContents

\* the session stays on app.py
SpecTopNApp == InitTopN /\ [][NextApp]_vars

SpecTopN == InitTopN /\ [][NextTopN]_vars

----------------------------------------------------------------------------
(* Properties of the Top-N cursor *)

OnCursorGrid == \E j \in 0 .. 10 : coin_top_n = DefaultTopN + TopNStep * j

\* the button on display is justified by the cursor as it is now
OfferJustified == more_offered => Len(coin_sum) > coin_top_n

\* the cursor changes only by a press of a button on display, and by 10
CursorStep ==
    [][coin_top_n' # coin_top_n =>
          more_offered /\ coin_top_n' = coin_top_n + TopNStep]_vars

\* C12: coin_top_n is 10 + 10 * j in every state of a session, starts at
\* 10, changes only through a "show more" press, by exactly 10, and "show
\* more" is offered only when the window holds more titles than the
\* current coin_top_n.
C12_CursorAndOffer ==
    /\ coin_top_n = DefaultTopN
    /\ []OnCursorGrid
    /\ CursorStep
    /\ []OfferJustified

\* the part of C12 that holds on both pages: the grid and the step
CursorOnGrid ==
    /\ coin_top_n = DefaultTopN
    /\ []OnCursorGrid
    /\ CursorStep

\* the page of pages/contents_sales.py shows the button although the
\* cursor has passed the number of titles
StaleOffer ==
    /\ page = "contents_sales"
    /\ more_offered
    /\ Len(coin_sum) <= coin_top_n

============================================================================
